---- MODULE Spec2Model ----
(***************************************************************************)
(* Model of the redis rate limiter: the fixed-window counter strategy      *)
(* (counter.go) and the sliding-window sorted-set strategy                 *)
(* (sorted_set_counter.go), run against one key of a shared redis store.   *)
(*                                                                         *)
(* Every redis command is one atomic step of the store; a pipeline is a    *)
(* batch of commands sent together, not a transaction, so the commands of  *)
(* two callers may interleave between any two commands of a batch.         *)
(* Time is counted in ticks; durations, scores and deadlines are in ticks. *)
(***************************************************************************)
EXTENDS Integers, Sequences, FiniteSets, TLC

\* ------------------------------------------------------------------ bounds
NumProcs    == 2      \* concurrent callers of Run
MaxTime     == 4      \* the clock runs from 0 to MaxTime in a sequential behaviour
MaxConcTime == 2      \* the same in a concurrent behaviour
MaxFailTime == 2      \* the same in a behaviour with failures
MaxLimit    == 2      \* Request.Limit ranges over 0..MaxLimit
MaxDuration == 2      \* Request.Duration ranges over 1..MaxDuration
MaxCalls    == 5      \* Run calls started in one sequential behaviour
MaxConcCalls == 2     \* Run calls started in one concurrent behaviour
MaxFailCalls == 2     \* Run calls started in one behaviour with failures
NumHeaders  == 1      \* the headers the extractor is configured with
MaxBurstCalls == 3    \* Run calls started in one burst of sliding-window calls
MaxBurstTime == 1     \* the clock runs from 0 to MaxBurstTime during a burst

Procs    == 1..NumProcs
SeqProcs == {1}

\* --------------------------------------------------------- program constants
keyWithoutExpire    == -1     \* TTL reply: the key has no expiry
keyThatDoesNotExist == -2     \* TTL reply: the key does not exist

Allow == "Allow"
Deny  == "Deny"
Error == "Error"              \* Run returned (nil, err)
NotRun == "NotRun"            \* Run was not called

StatusOK == 200               \* the wrapped handler of the tests answers 200
StatusBadRequest == 400
StatusTooManyRequests == 429
StatusInternalServerError == 500

CounterStrategy   == "counter"
SortedSetStrategy == "sortedSet"
GetIncrStrategy   == "getIncr"     \* the counter strategy that reads, then increments
EarliestStrategy  == "earliest"    \* the first version of the counter strategy

VARIABLES
    now,        \* the clock (the store's and the callers' injected now())
    strategy,   \* RateLimiterConfig.Strategy
    limit,      \* Request.Limit
    duration,   \* Request.Duration
    counter,    \* the integer stored at the key, 0 when the key holds none
    zset,       \* the sorted set stored at the key: records [id, score]
    expire,     \* the key's expiry deadline, keyWithoutExpire when it has none
    pc,         \* pc[p]: the command caller p issues next
    local,      \* local[p]: the local variables of p's Run
    log,        \* the records of the calls that returned
    calls,      \* the number of Run calls started
    winOrd,     \* calls started since the key last expired
    win,        \* the number of times the key has expired
    createdAt,  \* the clock value at which the counter key was last created
    overlap     \* whether two calls have been in flight at the same time

vars == <<now, strategy, limit, duration, counter, zset, expire, pc, local,
          log, calls, winOrd, win, createdAt, overlap>>

config == <<strategy, limit, duration>>
ghost  == <<winOrd, win, createdAt, overlap>>

\* ------------------------------------------------------------------- store
KeyExists == counter > 0 \/ zset # {}

\* TTL key: -2 for a missing key, -1 for a key without expiry, else what is left
TTLReply ==
    IF ~KeyExists THEN keyThatDoesNotExist
    ELSE IF expire = keyWithoutExpire THEN keyWithoutExpire
    ELSE expire - now

\* ZCOUNT key min +inf
ZCountFrom(set, min) == Cardinality({e \in set : e.score >= min})

\* ZCOUNT key -inf +inf
ZCountAll(set) == Cardinality(set)

\* the entries of the set with the given score
AtScore(set, score) == Cardinality({e \in set : e.score = score})

\* ZREMRANGEBYSCORE key 0 (max: the upper end exclusive
ZRemRangeBelow(set, max) == {e \in set : ~(0 <= e.score /\ e.score < max)}

\* a ZREMRANGEBYSCORE that removes nothing
ZRemRangeNothing(set, max) == set

\* ZREMRANGEBYSCORE key 0 max: both ends inclusive
ZRemRangeByScore(set, max) == {e \in set : ~(0 <= e.score /\ e.score <= max)}

\* a key whose sorted set becomes empty is deleted, and its expiry with it
ExpireAfter(set) == IF set = {} /\ counter = 0 THEN keyWithoutExpire ELSE expire

\* ------------------------------------------------------------------ callers
NoLocal == [id |-> 0, t0 |-> 0, ord |-> 0, cwin |-> 0, total |-> 0, pre |-> -1,
            preErr |-> FALSE, batchErr |-> FALSE, failed |-> FALSE, late |-> 0,
            ins |-> 0, rem |-> 0, armed |-> FALSE, ttlErr |-> FALSE,
            http |-> FALSE, preEdge |-> 0, edge |-> 0,
            got |-> -1, fresh |-> FALSE, inc |-> 0, expAt |-> 0]

AllIdle == \A q \in Procs : pc[q] = "idle"

InFlight == Cardinality({q \in Procs : pc[q] # "idle"})

\* ServeHTTP without the return of line 233
RespondNoReturn(r) ==
    IF r.state = Error
    THEN [r EXCEPT !.status = StatusInternalServerError]
    ELSE IF r.state = Deny
    THEN [r EXCEPT !.headers = TRUE, !.status = StatusTooManyRequests,
                   !.handled = r.handled + 1]
    ELSE [r EXCEPT !.headers = TRUE, !.status = StatusOK,
                   !.handled = r.handled + 1]

\* ServeHTTP, lines 220-240: what the handler does with what Run returned
Respond(r) ==
    IF r.state = Error
    THEN [r EXCEPT !.status = StatusInternalServerError]
    ELSE IF r.state = Deny
    THEN [r EXCEPT !.headers = TRUE, !.status = StatusTooManyRequests]
    ELSE [r EXCEPT !.headers = TRUE, !.status = StatusOK,
                   !.handled = r.handled + 1]

\* the record of a call that returned (result, nil); state is Allow or Deny.
\* status is the response's status, handled the number of calls of the wrapped
\* handler and headers whether the rate limiting headers were set, when the
\* call was made by ServeHTTP.
Returned(p, l, state, total, expiresAt) ==
    [id |-> l.id, state |-> state, total |-> total, expiresAt |-> expiresAt,
     err |-> FALSE,
     t0 |-> l.t0, ord |-> l.ord, win |-> l.cwin, pre |-> l.pre,
     failed |-> l.failed, late |-> l.late, ins |-> l.ins, rem |-> l.rem,
     armed |-> l.armed, ttlErr |-> l.ttlErr,
     preEdge |-> l.preEdge, edge |-> l.edge,
     got |-> l.got, fresh |-> l.fresh, inc |-> l.inc,
     http |-> l.http, extractErr |-> FALSE, headers |-> FALSE,
     status |-> 0, handled |-> 0]

\* what the caller of Run does next with what Run returned
Return(l, r) == IF l.http THEN Respond(r) ELSE r

\* a return statement that hands back a Result together with the error
FailedWithResult(p, l) ==
    Return(l, [Returned(p, [l EXCEPT !.failed = TRUE], Deny, l.total, 0)
                  EXCEPT !.err = TRUE])

\* the record of a Run that returned (nil, err): no Result, state is Error
Failed(p, l) ==
    Return(l, [Returned(p, [l EXCEPT !.failed = TRUE], Error, 0, 0)
                  EXCEPT !.err = TRUE])

Init ==
    /\ now = 0
    /\ strategy \in {CounterStrategy, SortedSetStrategy}
    /\ limit \in 0..MaxLimit
    /\ duration \in 1..MaxDuration
    /\ counter = 0
    /\ zset = {}
    /\ expire = keyWithoutExpire
    /\ pc = [p \in Procs |-> "idle"]
    /\ local = [p \in Procs |-> NoLocal]
    /\ log = {}
    /\ calls = 0
    /\ winOrd = 0
    /\ win = 0
    /\ createdAt = 0
    /\ overlap = FALSE

\* the first command of Run
FirstStep ==
    CASE strategy = CounterStrategy -> "incr"
      [] strategy = SortedSetStrategy -> "precheck"
      [] strategy = GetIncrStrategy -> "get"
      [] strategy = EarliestStrategy -> "eincr"

\* Run is called, by the first caller that is free (callers are interchangeable),
\* from ServeHTTP when http is TRUE; the sliding-window strategy reads the clock
\* first
Call(p, http) ==
    /\ pc[p] = "idle"
    /\ \A q \in Procs : q < p => pc[q] # "idle"
    /\ calls' = calls + 1
    /\ winOrd' = winOrd + 1
    /\ local' = [local EXCEPT ![p] =
                    [NoLocal EXCEPT !.id = calls + 1, !.t0 = now,
                                    !.ord = winOrd + 1, !.cwin = win,
                                    !.http = http]]
    /\ pc' = [pc EXCEPT ![p] = FirstStep]
    /\ overlap' = (overlap \/ \E q \in Procs : q # p /\ pc[q] # "idle")
    /\ UNCHANGED <<now, config, counter, zset, expire, log, win, createdAt>>

\* Run is called directly
Start(p) == calls < MaxCalls /\ Call(p, FALSE)

\* -------------------------------------------------- httpHeaderExtractor
HeaderValues == {<<>>, <<" ">>, <<"u">>, <<"u", " ">>}

\* the requests: a value for each header the extractor is configured with, the
\* empty value for a header the request does not carry
Requests == [1..NumHeaders -> HeaderValues]

RECURSIVE TrimLeft(_)
TrimLeft(v) == IF v # <<>> /\ Head(v) = " " THEN TrimLeft(Tail(v)) ELSE v

RECURSIVE TrimRight(_)
TrimRight(v) ==
    IF v # <<>> /\ v[Len(v)] = " " THEN TrimRight(SubSeq(v, 1, Len(v) - 1))
    ELSE v

\* strings.TrimSpace
TrimSpace(v) == TrimRight(TrimLeft(v))

\* strings.Join(values, "-")
RECURSIVE Join(_)
Join(values) ==
    IF values = <<>> THEN <<>>
    ELSE IF Len(values) = 1 THEN values[1]
    ELSE values[1] \o <<"-">> \o Join(Tail(values))

\* Extract, lines 151-164: the error of a header without a value, or the key
Extract(req) ==
    IF \E h \in 1..NumHeaders : TrimSpace(req[h]) = <<>>
    THEN [err |-> TRUE, key |-> <<>>]
    ELSE [err |-> FALSE, key |-> Join([h \in 1..NumHeaders |-> TrimSpace(req[h])])]

\* the one key of the model: the key of a request whose headers all hold "u"
TheKey == Join([h \in 1..NumHeaders |-> <<"u">>])

\* ------------------------------------------ httpRateLimiterHandler.ServeHTTP
\* the record of a request answered at lines 209-212, without a call of Run
BadRequest ==
    [Returned(1, [NoLocal EXCEPT !.id = calls + 1, !.t0 = now], NotRun, 0, 0)
        EXCEPT !.http = TRUE, !.extractErr = TRUE, !.status = StatusBadRequest]

\* ServeHTTP, lines 207-218: the key is extracted and Run is called with it;
\* lines 220-240 are applied to what Run returns, see Respond
ServeHTTP(p) ==
    /\ calls < MaxFailCalls
    /\ \E req \in Requests :
          LET extracted == Extract(req)
          IN  IF extracted.err
              THEN /\ pc[p] = "idle"
                   /\ calls' = calls + 1
                   /\ log' = log \cup {BadRequest}
                   /\ UNCHANGED <<now, config, counter, zset, expire, pc,
                                  local, ghost>>
              ELSE /\ extracted.key = TheKey
                   /\ Call(p, TRUE)

\* ------------------------------------------------- counterStrategy.Run
\* line 60 arming the expiry on every call
NeedsExpireAlways(d) == TRUE

\* line 60 with the earliest variant's test for a missing expiry
NeedsExpireIfZero(d) == d = 0

\* line 60: the TTL reply says that the key has no expiry
NeedsExpire(d) == d = keyWithoutExpire

\* line 62 with twice the duration
ExpireDeadlineTwice == now + duration + duration

\* line 62: the deadline EXPIRE key duration sets
ExpireDeadline == now + duration

\* line 73 with the limit off by one
CounterOverByTwo(requests) == requests > limit + 1

\* line 73 with the earliest variant's comparison
CounterOverGe(requests) == requests >= limit

\* line 73: the count is over the limit
CounterOver(requests) == requests > limit

\* the result of lines 69-85, from the increment's reply and the TTL in effect
CounterResult(p, l, ttlDuration) ==
    Return(l, Returned(p, l, IF CounterOver(l.total) THEN Deny ELSE Allow,
                       l.total, now + ttlDuration))

\* INCR key, the first command of the pipeline
Incr(p) ==
    /\ pc[p] = "incr"
    /\ counter' = counter + 1
    /\ createdAt' = IF counter = 0 THEN now ELSE createdAt
    /\ local' = [local EXCEPT ![p].total = counter + 1, ![p].cwin = win]
    /\ pc' = [pc EXCEPT ![p] = "ttl"]
    /\ UNCHANGED <<now, config, zset, expire, log, calls, winOrd, win, overlap>>

\* TTL key, the second command of the pipeline, then Exec and lines 43-67
Ttl(p) ==
    /\ pc[p] = "ttl"
    /\ LET d == TTLReply
           l == local[p]
       IN  IF l.batchErr
           THEN /\ log' = log \cup {Failed(p, l)}
                /\ pc' = [pc EXCEPT ![p] = "idle"]
                /\ local' = [local EXCEPT ![p] = NoLocal]
           ELSE IF NeedsExpire(d)
           THEN /\ pc' = [pc EXCEPT ![p] = "expire"]
                /\ UNCHANGED <<local, log>>
           ELSE /\ log' = log \cup {CounterResult(p, l, d)}
                /\ pc' = [pc EXCEPT ![p] = "idle"]
                /\ local' = [local EXCEPT ![p] = NoLocal]
    /\ UNCHANGED <<now, config, counter, zset, expire, calls, ghost>>

\* EXPIRE key duration (line 62), then lines 69-85
Expire(p) ==
    /\ pc[p] = "expire"
    /\ expire' = IF KeyExists THEN ExpireDeadline ELSE expire
    /\ log' = log \cup {CounterResult(p, [local[p] EXCEPT !.armed = TRUE],
                                       duration)}
    /\ pc' = [pc EXCEPT ![p] = "idle"]
    /\ local' = [local EXCEPT ![p] = NoLocal]
    /\ UNCHANGED <<now, config, counter, zset, calls, ghost>>

\* ------------------------------------------------- sortedSetCounter.Run
\* minimum := now.Add(-r.Duration), with now read when Run was called
Minimum(l) == l.t0 - duration

\* line 53 with a strict comparison
AlreadyLimitedGt(result) == result > limit

\* line 53: the window already holds limit requests
AlreadyLimited(result) == result >= limit

\* line 97 with a non-strict comparison
SortedSetOverGe(requests) == requests >= limit

\* line 97: the count of the batch is over the limit
SortedSetOver(requests) == requests > limit

\* the result of lines 95-109, from the count of the batch
SortedSetResult(p, l) ==
    Return(l, Returned(p, l, IF SortedSetOver(l.total) THEN Deny ELSE Allow,
                       l.total, l.t0 + duration))

\* ZCOUNT key minimum +inf (line 52), and the early Deny of lines 53-59
PreCount(p) ==
    /\ pc[p] = "precheck"
    /\ LET result == ZCountFrom(zset, Minimum(local[p]))
           l == [local[p] EXCEPT !.pre = result, !.total = result,
                                 !.preEdge = AtScore(zset, Minimum(local[p]))]
       IN  IF AlreadyLimited(result)
           THEN /\ log' = log \cup {Return(l, Returned(p, l, Deny, result,
                                                        l.t0 + duration))}
                /\ pc' = [pc EXCEPT ![p] = "idle"]
                /\ local' = [local EXCEPT ![p] = NoLocal]
           ELSE /\ log' = log
                /\ pc' = [pc EXCEPT ![p] = "zrem"]
                /\ local' = [local EXCEPT ![p] = l]
    /\ UNCHANGED <<now, config, counter, zset, expire, calls, ghost>>

\* the writes a Run has issued after a round trip of it had failed
Late(l) == IF l.preErr THEN l.late + 1 ELSE l.late

\* ZREMRANGEBYSCORE key 0 minimum, the first command of the pipeline
ZRem(p) ==
    /\ pc[p] = "zrem"
    /\ LET kept == ZRemRangeByScore(zset, Minimum(local[p]))
       IN  /\ zset' = kept
           /\ expire' = ExpireAfter(kept)
           /\ local' = [local EXCEPT ![p].rem = Cardinality(zset \ kept),
                                     ![p].late = Late(local[p])]
    /\ pc' = [pc EXCEPT ![p] = "zadd"]
    /\ UNCHANGED <<now, config, counter, log, calls, ghost>>

\* ZADD key now uuid, the second command of the pipeline
ZAdd(p) ==
    /\ pc[p] = "zadd"
    /\ zset' = zset \cup {[id |-> local[p].id, score |-> local[p].t0]}
    /\ local' = [local EXCEPT ![p].ins = 1, ![p].late = Late(local[p])]
    /\ pc' = [pc EXCEPT ![p] = "zcount"]
    /\ UNCHANGED <<now, config, counter, expire, log, calls, ghost>>

\* ZCOUNT key -inf +inf, the last command of the pipeline, then lines 78-109
ZCount(p) ==
    /\ pc[p] = "zcount"
    /\ LET l == [local[p] EXCEPT !.total = ZCountAll(zset),
                                 !.edge = AtScore(zset, Minimum(local[p]))]
       IN  log' = log \cup {IF l.batchErr
                             THEN Failed(p, l)
                             ELSE SortedSetResult(p, l)}
    /\ local' = [local EXCEPT ![p] = NoLocal]
    /\ pc' = [pc EXCEPT ![p] = "idle"]
    /\ UNCHANGED <<now, config, counter, zset, expire, calls, ghost>>

\* ----------------------- counterStrategy.Run, reading before it increments
\* line 60: the TTL reply says that the key has no expiry or does not exist
GetNeedsExpire(d) == d = keyWithoutExpire \/ d = keyThatDoesNotExist

\* line 73 with a strict comparison
GetAlreadyLimitedGt(l) == l.got # -1 /\ l.got > limit

\* line 73: GET found a count that has reached the limit
GetAlreadyLimited(l) == l.got # -1 /\ l.got >= limit

\* line 88: the count is over the limit
GetIncrOver(requests) == requests > limit

\* lines 69-79, with ttlDuration set: the Deny of a key that has reached the
\* limit, or else on to the INCR of line 81
GetCheck(p, l, ttlDuration) ==
    LET m == [l EXCEPT !.expAt = now + ttlDuration]
    IN  IF GetAlreadyLimited(m)
        THEN /\ log' = log \cup {Return(m, Returned(p, m, Deny, m.got, m.expAt))}
             /\ pc' = [pc EXCEPT ![p] = "idle"]
             /\ local' = [local EXCEPT ![p] = NoLocal]
        ELSE /\ log' = log
             /\ pc' = [pc EXCEPT ![p] = "gincr"]
             /\ local' = [local EXCEPT ![p] = m]

\* GET key, the first command of the pipeline: -1 stands for the nil reply
GetGet(p) ==
    /\ pc[p] = "get"
    /\ local' = [local EXCEPT ![p].got = IF counter = 0 THEN -1 ELSE counter]
    /\ pc' = [pc EXCEPT ![p] = "gttl"]
    /\ UNCHANGED <<now, config, counter, zset, expire, log, calls, ghost>>

\* TTL key, the second command of the pipeline, then Exec and lines 46-79
GetTtl(p) ==
    /\ pc[p] = "gttl"
    /\ LET d == TTLReply
           l == [local[p] EXCEPT !.fresh = (d = keyThatDoesNotExist)]
       IN  IF GetNeedsExpire(d)
           THEN /\ pc' = [pc EXCEPT ![p] = "vexpire"]
                /\ local' = [local EXCEPT ![p] = l]
                /\ log' = log
           ELSE GetCheck(p, l, d)
    /\ UNCHANGED <<now, config, counter, zset, expire, calls, ghost>>

\* INCR key (line 81), then lines 83-100
GetIncr(p) ==
    /\ pc[p] = "gincr"
    /\ counter' = counter + 1
    /\ createdAt' = IF counter = 0 THEN now ELSE createdAt
    /\ LET l == [local[p] EXCEPT !.total = counter + 1, !.cwin = win,
                                 !.inc = 1]
       IN  log' = log \cup
                   {Return(l, Returned(p, l, IF GetIncrOver(l.total)
                                             THEN Deny ELSE Allow,
                                       l.total, l.expAt))}
    /\ pc' = [pc EXCEPT ![p] = "idle"]
    /\ local' = [local EXCEPT ![p] = NoLocal]
    /\ UNCHANGED <<now, config, zset, expire, calls, winOrd, win, overlap>>

\* ------------------------------ counterStrategy.Run, in its first version
\* line 134: the TTL reply is zero
EarliestNeedsExpire(d) == d = 0

\* line 146: the count has reached the limit
EarliestOver(requests) == requests >= limit

\* the result of lines 140-156: it carries no ExpiresAt
EarliestResult(p, l) ==
    Return(l, Returned(p, l, IF EarliestOver(l.total) THEN Deny ELSE Allow,
                       l.total, 0))

\* INCR key, the first command of the pipeline
EarliestIncr(p) ==
    /\ pc[p] = "eincr"
    /\ counter' = counter + 1
    /\ createdAt' = IF counter = 0 THEN now ELSE createdAt
    /\ local' = [local EXCEPT ![p].total = counter + 1, ![p].cwin = win,
                              ![p].inc = 1]
    /\ pc' = [pc EXCEPT ![p] = "ettl"]
    /\ UNCHANGED <<now, config, zset, expire, log, calls, winOrd, win, overlap>>

\* TTL key, the second command of the pipeline, then Exec and lines 130-156
EarliestTtl(p) ==
    /\ pc[p] = "ettl"
    /\ LET d == TTLReply
       IN  IF EarliestNeedsExpire(d)
           THEN /\ pc' = [pc EXCEPT ![p] = "vexpire"]
                /\ UNCHANGED <<local, log>>
           ELSE /\ log' = log \cup {EarliestResult(p, local[p])}
                /\ pc' = [pc EXCEPT ![p] = "idle"]
                /\ local' = [local EXCEPT ![p] = NoLocal]
    /\ UNCHANGED <<now, config, counter, zset, expire, calls, ghost>>

\* EXPIRE key duration, which both earlier versions send after their pipeline
\* (line 62 of the one, line 135 of the other), and what each does next.
\* EXPIRE does nothing to a key that does not exist.
VariantExpire(p) ==
    /\ pc[p] = "vexpire"
    /\ expire' = IF KeyExists THEN ExpireDeadline ELSE expire
    /\ LET l == [local[p] EXCEPT !.armed = TRUE]
       IN  IF strategy = GetIncrStrategy
           THEN GetCheck(p, l, duration)
           ELSE /\ log' = log \cup {EarliestResult(p, l)}
                /\ pc' = [pc EXCEPT ![p] = "idle"]
                /\ local' = [local EXCEPT ![p] = NoLocal]
    /\ UNCHANGED <<now, config, counter, zset, calls, ghost>>

\* ------------------------------------------------------- failing commands
\* A command that fails has no effect on the store and reports an error.
\* Exec reports the first error of the commands of its batch.

\* INCR fails: TTL is still sent, then Exec reports the error (lines 43-45)
IncrFail(p) ==
    /\ pc[p] = "incr"
    /\ local' = [local EXCEPT ![p].batchErr = TRUE, ![p].failed = TRUE]
    /\ pc' = [pc EXCEPT ![p] = "ttl"]
    /\ UNCHANGED <<now, config, counter, zset, expire, log, calls, ghost>>

\* TTL fails: Exec reports the error (lines 43-45), whether INCR failed or not
TtlFail(p) ==
    /\ pc[p] = "ttl"
    /\ log' = log \cup {Failed(p, [local[p] EXCEPT
                                      !.ttlErr = ~local[p].batchErr])}
    /\ local' = [local EXCEPT ![p] = NoLocal]
    /\ pc' = [pc EXCEPT ![p] = "idle"]
    /\ UNCHANGED <<now, config, counter, zset, expire, calls, ghost>>

\* EXPIRE fails (lines 62-64)
ExpireFail(p) ==
    /\ pc[p] = "expire"
    /\ log' = log \cup {Failed(p, local[p])}
    /\ local' = [local EXCEPT ![p] = NoLocal]
    /\ pc' = [pc EXCEPT ![p] = "idle"]
    /\ UNCHANGED <<now, config, counter, zset, expire, calls, ghost>>

\* the first ZCOUNT fails: err # nil, so line 53 is skipped and Run goes on
PreCountFail(p) ==
    /\ pc[p] = "precheck"
    /\ local' = [local EXCEPT ![p].preErr = TRUE, ![p].failed = TRUE]
    /\ pc' = [pc EXCEPT ![p] = "zrem"]
    /\ UNCHANGED <<now, config, counter, zset, expire, log, calls, ghost>>

\* ZREMRANGEBYSCORE fails: the rest of the batch is still sent
ZRemFail(p) ==
    /\ pc[p] = "zrem"
    /\ local' = [local EXCEPT ![p].batchErr = TRUE, ![p].failed = TRUE]
    /\ pc' = [pc EXCEPT ![p] = "zadd"]
    /\ UNCHANGED <<now, config, counter, zset, expire, log, calls, ghost>>

\* ZADD fails: the rest of the batch is still sent
ZAddFail(p) ==
    /\ pc[p] = "zadd"
    /\ local' = [local EXCEPT ![p].batchErr = TRUE, ![p].failed = TRUE]
    /\ pc' = [pc EXCEPT ![p] = "zcount"]
    /\ UNCHANGED <<now, config, counter, zset, expire, log, calls, ghost>>

\* the last ZCOUNT fails: Exec reports the error (lines 78-80)
ZCountFail(p) ==
    /\ pc[p] = "zcount"
    /\ log' = log \cup {Failed(p, local[p])}
    /\ local' = [local EXCEPT ![p] = NoLocal]
    /\ pc' = [pc EXCEPT ![p] = "idle"]
    /\ UNCHANGED <<now, config, counter, zset, expire, calls, ghost>>

\* the process running Run dies between two commands: nothing is returned
Crash(p) ==
    /\ pc[p] # "idle"
    /\ local' = [local EXCEPT ![p] = NoLocal]
    /\ pc' = [pc EXCEPT ![p] = "idle"]
    /\ UNCHANGED <<now, config, counter, zset, expire, log, calls, ghost>>

\* ------------------------------------------------------------ time passes
\* the store deletes a key whose deadline has been reached
Tick ==
    /\ now' = now + 1
    /\ IF expire # keyWithoutExpire /\ expire <= now + 1
       THEN /\ counter' = 0
            /\ zset' = {}
            /\ expire' = keyWithoutExpire
            /\ winOrd' = 0
            /\ win' = win + 1
       ELSE UNCHANGED <<counter, zset, expire, winOrd, win>>
    /\ UNCHANGED <<config, pc, local, log, calls, createdAt, overlap>>

\* the clock is advanced between two calls, as the tests do
Advance == AllIdle /\ now < MaxTime /\ Tick

\* ------------------------------------------------------------ specifications
\* one caller, calls one after the other, a store that never fails
Next ==
    \/ \E p \in SeqProcs :
          \/ Start(p)
          \/ Incr(p)
          \/ Ttl(p)
          \/ Expire(p)
          \/ PreCount(p)
          \/ ZRem(p)
          \/ ZAdd(p)
          \/ ZCount(p)
    \/ Advance

Spec == Init /\ [][Next]_vars

ConcStart(p) == calls < MaxConcCalls /\ Start(p)

\* time passes while calls are in flight
ConcTick == now < MaxConcTime /\ Tick

\* concurrent callers, time passes at any moment, a store that never fails
NextConc ==
    \/ \E p \in Procs :
          \/ ConcStart(p)
          \/ Incr(p)
          \/ Ttl(p)
          \/ Expire(p)
          \/ PreCount(p)
          \/ ZRem(p)
          \/ ZAdd(p)
          \/ ZCount(p)
    \/ ConcTick

SpecConc == Init /\ [][NextConc]_vars

FailStart(p) == calls < MaxFailCalls /\ Start(p)

\* the clock is advanced between two calls
FailAdvance == AllIdle /\ now < MaxFailTime /\ Tick

\* one caller, calls one after the other, commands may fail, a caller may die
NextFail ==
    \/ \E p \in SeqProcs :
          \/ FailStart(p)
          \/ Incr(p)
          \/ Ttl(p)
          \/ Expire(p)
          \/ PreCount(p)
          \/ ZRem(p)
          \/ ZAdd(p)
          \/ ZCount(p)
          \/ IncrFail(p)
          \/ TtlFail(p)
          \/ ExpireFail(p)
          \/ PreCountFail(p)
          \/ ZRemFail(p)
          \/ ZAddFail(p)
          \/ ZCountFail(p)
          \/ Crash(p)
    \/ FailAdvance

SpecFail == Init /\ [][NextFail]_vars

\* a burst of sliding-window calls on an empty store
InitBurst == Init /\ strategy = SortedSetStrategy

BurstStart(p) == calls < MaxBurstCalls /\ Start(p)

BurstTick == now < MaxBurstTime /\ Tick

\* concurrent callers of the sliding-window strategy, time passes at any
\* moment, a store that never fails
NextBurst ==
    \/ \E p \in Procs :
          \/ BurstStart(p)
          \/ PreCount(p)
          \/ ZRem(p)
          \/ ZAdd(p)
          \/ ZCount(p)
    \/ BurstTick

SpecBurst == InitBurst /\ [][NextBurst]_vars

\* the earlier versions of the counter strategy, on an empty store
InitVariants ==
    /\ now = 0
    /\ strategy \in {GetIncrStrategy, EarliestStrategy}
    /\ limit \in 0..MaxLimit
    /\ duration \in 1..MaxDuration
    /\ counter = 0
    /\ zset = {}
    /\ expire = keyWithoutExpire
    /\ pc = [p \in Procs |-> "idle"]
    /\ local = [p \in Procs |-> NoLocal]
    /\ log = {}
    /\ calls = 0
    /\ winOrd = 0
    /\ win = 0
    /\ createdAt = 0
    /\ overlap = FALSE

\* one caller, calls one after the other, a store that never fails
NextVariants ==
    \/ \E p \in SeqProcs :
          \/ Start(p)
          \/ GetGet(p)
          \/ GetTtl(p)
          \/ GetIncr(p)
          \/ EarliestIncr(p)
          \/ EarliestTtl(p)
          \/ VariantExpire(p)
    \/ Advance

SpecVariants == InitVariants /\ [][NextVariants]_vars

\* requests served one after the other by the HTTP handler, commands may fail
NextHTTP ==
    \/ \E p \in SeqProcs :
          \/ ServeHTTP(p)
          \/ Incr(p)
          \/ Ttl(p)
          \/ Expire(p)
          \/ PreCount(p)
          \/ ZRem(p)
          \/ ZAdd(p)
          \/ ZCount(p)
          \/ IncrFail(p)
          \/ TtlFail(p)
          \/ ExpireFail(p)
          \/ PreCountFail(p)
          \/ ZRemFail(p)
          \/ ZAddFail(p)
          \/ ZCountFail(p)
    \/ FailAdvance

SpecHTTP == Init /\ [][NextHTTP]_vars

TypeOK ==
    /\ now >= 0
    /\ counter \in 0..MaxCalls
    /\ calls \in 0..MaxCalls
    /\ Cardinality(log) <= calls

\* ------------------------------------------------------------------ claims
\* the tokens the calls that returned have inserted
Inserted == {x \in log : x.ins = 1}

\* C1: in sequential fixed-window calls, the Nth call of a window that has not
\* expired returns Allow iff N <= limit, Deny iff N > limit, and reports N
C1_FixedWindowNthCall ==
    strategy = CounterStrategy =>
        \A e \in log :
            /\ e.total = e.ord
            /\ e.state = Allow <=> e.ord <= limit
            /\ e.state = Deny <=> e.ord > limit

\* the call after the last admitted one was denied and reports limit + 1
C1_Witness ==
    /\ strategy = CounterStrategy
    /\ limit >= 1
    /\ \E e \in log : e.ord = limit /\ e.state = Allow /\ e.total = limit
    /\ \E e \in log : e.ord = limit + 1 /\ e.state = Deny /\ e.total = limit + 1

\* C2: in sequential sliding-window calls at one clock value with limit >= 1,
\* the Nth call returns Allow and N while N <= limit, every later call returns
\* Deny and limit, and the set then holds exactly limit entries
C2_SlidingFixedClock ==
    (strategy = SortedSetStrategy /\ limit >= 1 /\ \A e \in log : e.t0 = now) =>
        /\ \A e \in log :
              IF e.id <= limit
              THEN e.state = Allow /\ e.total = e.id
              ELSE e.state = Deny /\ e.total = limit
        /\ (\E e \in log : e.id >= limit) => Cardinality(zset) = limit

\* limit calls were admitted at one clock value and the next one was denied
C2_Witness ==
    /\ strategy = SortedSetStrategy
    /\ limit >= 1
    /\ \A e \in log : e.t0 = now
    /\ \E e \in log : e.id = limit /\ e.state = Allow
    /\ \E e \in log : e.id = limit + 1 /\ e.state = Deny /\ e.total = limit
    /\ Cardinality(zset) = limit

\* C3: a fixed-window key no longer exists once more than duration has passed
\* since it was created, and the calls after the expiry count from 1 again:
\* the Nth of them returns Allow iff N <= limit and reports N
C3_FixedWindowReset ==
    strategy = CounterStrategy =>
        /\ counter > 0 => now - createdAt <= duration
        /\ \A e \in log :
              e.win >= 1 =>
                  /\ e.total = e.ord
                  /\ e.state = Allow <=> e.ord <= limit

\* after the key expired, a call was admitted and a later one denied
C3_Witness ==
    /\ strategy = CounterStrategy
    /\ limit >= 1
    /\ \E e \in log : e.win = 0 /\ e.state = Deny
    /\ \E e \in log : e.win = 1 /\ e.ord = 1 /\ e.state = Allow /\ e.total = 1
    /\ \E e \in log : e.win = 1 /\ e.ord = limit + 1 /\ e.state = Deny

\* the tokens inserted up to call e with a score in (e.t0 - duration, e.t0]
InWindow(e) ==
    {x \in Inserted : x.id <= e.id /\ x.t0 > e.t0 - duration /\ x.t0 <= e.t0}

\* the tokens inserted before call e with a score in [e.t0 - duration, +inf)
Counted(e) ==
    {x \in Inserted : x.id < e.id /\ x.t0 >= e.t0 - duration}

\* C4: in sequential sliding-window calls, an admitted call reports the number
\* of tokens with a score in (now - duration, now], its own included, and a
\* call is admitted when fewer than limit earlier tokens are left in the window
C4_SlidingRollingCount ==
    strategy = SortedSetStrategy =>
        \A e \in log :
            /\ e.state = Allow => e.total = Cardinality(InWindow(e))
            /\ Cardinality(Counted(e)) < limit => e.state = Allow

\* a call was denied at the limit and, once tokens had aged out, a later call
\* was admitted and reports fewer requests than were ever admitted
C4_Witness ==
    /\ strategy = SortedSetStrategy
    /\ \E d, e \in log :
          /\ d.state = Deny
          /\ d.id < e.id
          /\ e.state = Allow
          /\ e.total < Cardinality({x \in Inserted : x.id <= e.id})

\* C5 as stated: a sliding-window call that returns Deny has inserted no token
\* and removed no entry, under every interleaving
C5_DenyNeverWrites ==
    strategy = SortedSetStrategy =>
        \A e \in log : e.state = Deny => e.ins = 0 /\ e.rem = 0

\* C5: a sliding-window call denied by the pre-check (the count it read already
\* met the limit) has inserted no token and removed no entry; a call denied on
\* the count of its batch has inserted its token
C5_PreCheckDenyNeverWrites ==
    strategy = SortedSetStrategy =>
        \A e \in log :
            e.state = Deny =>
                IF e.pre >= limit THEN e.ins = 0 /\ e.rem = 0 ELSE e.ins = 1

\* after a call was admitted, a call that overlapped with it was denied by the
\* pre-check and has left the set as it was
C5_Witness ==
    /\ strategy = SortedSetStrategy
    /\ limit >= 1
    /\ overlap
    /\ \E e \in log : e.state = Allow
    /\ \E e \in log : e.state = Deny /\ e.pre >= limit /\ e.ins = 0 /\ e.rem = 0

\* the entries of the set with a score in [now - duration, now]
EntriesInSpan == {x \in zset : x.score >= now - duration /\ x.score <= now}

\* the calls that returned Allow with a timestamp in [now - duration, now]
AllowedInSpan ==
    {e \in log : e.state = Allow /\ e.t0 >= now - duration /\ e.t0 <= now}

C8_EveryKeyExpires ==
    (AllIdle /\ KeyExists) => expire # keyWithoutExpire

\* C8: in the fixed-window strategy a key left in the store by the calls that
\* have returned has an expiry at most duration ahead; the sliding-window
\* strategy sets no expiry on its key
C8_OnlyCounterKeyExpires ==
    AllIdle =>
        /\ (strategy = CounterStrategy /\ counter > 0) =>
               /\ expire # keyWithoutExpire
               /\ now < expire
               /\ expire <= now + duration
        /\ strategy = SortedSetStrategy => expire = keyWithoutExpire

\* a counter incremented by several calls is some time into its window
C8_Witness ==
    /\ strategy = CounterStrategy
    /\ AllIdle
    /\ counter >= 2
    /\ now >= 1
    /\ expire = createdAt + duration

\* C9: after a fixed-window Run that returned a Result, the key has an expiry,
\* and when that Run found the key without one it has set it to duration
C9_SuccessfulRunArmsExpiry ==
    strategy = CounterStrategy =>
        \A e \in log :
            (AllIdle /\ e.id = calls /\ e.state # Error /\ counter > 0) =>
                /\ expire # keyWithoutExpire
                /\ e.armed => expire = e.expiresAt

\* a Run found a key that earlier calls had incremented and left without an
\* expiry, and has armed it
C9_Witness ==
    /\ strategy = CounterStrategy
    /\ AllIdle
    /\ \E e \in log :
          /\ e.id = calls
          /\ e.state # Error
          /\ e.armed
          /\ e.total >= 2
          /\ e.expiresAt = e.t0 + duration
          /\ expire = e.expiresAt

\* C10 as stated: a Run of which a command failed returns an error, and issues
\* no write after the round trip that failed
C10_FailureAborts ==
    \A e \in log : e.failed => e.state = Error /\ e.late = 0

\* C11 as stated: a fixed-window Run of which the increment succeeded and the
\* TTL read failed sets the key's expiry to duration and returns a Result
C11_TtlErrorArmsExpiry ==
    strategy = CounterStrategy =>
        \A e \in log : e.ttlErr => e.state # Error /\ e.armed

\* C12 as stated: with limit = 0 every Run that returns a Result returns Deny,
\* and in the sliding-window strategy it has inserted no token
C12_ZeroLimitDenies ==
    limit = 0 =>
        \A e \in log :
            e.state # Error =>
                /\ e.state = Deny
                /\ strategy = SortedSetStrategy => e.ins = 0

\* C13: every Run that ends returns once, either a Result (Allow or Deny)
\* and no error, or an error and no Result
C13_ResultXorError ==
    /\ \A e \in log :
          \/ e.state \in {Allow, Deny} /\ ~e.err
          \/ e.state = Error /\ e.err
    /\ \A e, f \in log : e.id = f.id => e = f

\* Runs of both kinds have ended: one returned a Result, one an error
C13_Witness ==
    /\ \E e \in log : e.state \in {Allow, Deny} /\ ~e.err /\ ~e.failed
    /\ \E e \in log : e.state = Error /\ e.err /\ e.failed

\* C14: the HTTP handler calls the wrapped handler once when the key was
\* extracted and Run returned Allow, and not at all otherwise: it answers 400
\* without calling Run when the extraction failed, 500 when Run returned an
\* error and 429 when Run returned Deny
C14_HandlerCalledOnAllowOnly ==
    \A e \in log :
        e.http =>
            /\ e.handled = IF ~e.extractErr /\ ~e.err /\ e.state = Allow
                            THEN 1 ELSE 0
            /\ e.extractErr <=> e.state = NotRun
            /\ e.extractErr => e.status = StatusBadRequest /\ e.ord = 0
            /\ e.state = Error => e.err /\ e.status = StatusInternalServerError
            /\ e.state = Deny => e.status = StatusTooManyRequests

\* a request was allowed and handed to the wrapped handler, and a later one
\* was denied and answered 429
C14_Witness ==
    \E e, f \in log :
        /\ e.http /\ e.state = Allow /\ e.handled = 1 /\ e.status = StatusOK
        /\ f.http /\ f.state = Deny /\ f.handled = 0
        /\ f.status = StatusTooManyRequests

C16_ExpiresAtWithinWindow ==
    [][strategy = CounterStrategy =>
          \A e \in log' \ log :
              e.state # Error =>
                  now < e.expiresAt /\ e.expiresAt <= now + duration]_vars

\* C17 as stated: in the version that reads before it increments, a Run that
\* found no key and returned a Result leaves the key with an expiry of duration
C17_NewKeyGetsExpiry ==
    strategy = GetIncrStrategy =>
        \A e \in log :
            (AllIdle /\ e.id = calls /\ e.fresh /\ e.state # Error) =>
                /\ counter > 0
                /\ expire = e.t0 + duration

\* C18 as stated: in the first version, the Run that creates the key arms an
\* expiry of duration on it, so that the key does not outlive its window
C18_EarliestArmsExpiry ==
    (strategy = EarliestStrategy /\ AllIdle /\ counter > 0) =>
        /\ expire = createdAt + duration
        /\ now - createdAt < duration

\* C19: in sequential sliding-window calls with limit >= 1, a call whose
\* pre-check counted fewer than limit entries is admitted, the count of its
\* batch, its own token included, is at most limit, and no call is denied on
\* the count of its batch
C19_PassedPreCheckIsAdmitted ==
    (strategy = SortedSetStrategy /\ limit >= 1) =>
        \A e \in log :
            /\ (e.pre >= 0 /\ e.pre < limit) =>
                   /\ e.state = Allow
                   /\ e.ins = 1
                   /\ e.total <= e.pre + 1
                   /\ e.total <= limit
            /\ e.state = Deny => e.ins = 0 /\ e.pre >= limit

\* a call that found limit - 1 entries in the window was admitted at the
\* limit after its batch had pruned the set, and another call was denied
C19_Witness ==
    /\ strategy = SortedSetStrategy
    /\ limit >= 1
    /\ \E e \in log :
          /\ e.pre = limit - 1
          /\ e.state = Allow
          /\ e.total = limit
          /\ e.rem >= 1
    /\ \E e \in log : e.state = Deny

\* the Results of the fixed-window calls that incremented the key during its
\* w-th lifetime, that is, with no expiry of the key between them
SameLifetime(w) == {e \in log : e.state # Error /\ e.win = w}

\* C20: under every interleaving of concurrent fixed-window calls, the calls
\* that incremented the key with no expiry of the key in between return
\* pairwise distinct totalRequests, and at most limit of them return Allow
C20_DistinctTotalsAtMostLimit ==
    strategy = CounterStrategy =>
        \A w \in 0..win :
            /\ \A e, f \in SameLifetime(w) : e.total = f.total => e = f
            /\ Cardinality({e \in SameLifetime(w) : e.state = Allow}) <= limit

\* two calls that were in flight together have incremented the same key: the
\* one was admitted at the limit, the other denied
C20_Witness ==
    /\ strategy = CounterStrategy
    /\ overlap
    /\ limit >= 1
    /\ \E e, f \in SameLifetime(win) :
          /\ e.state = Allow /\ e.total = limit
          /\ f.state = Deny /\ f.total = limit + 1

\* no entry has aged out of the window: no call has removed an entry, and
\* every entry of the set is less than duration old
NoAging ==
    /\ \A e \in log : e.rem = 0
    /\ \A p \in Procs : local[p].rem = 0
    /\ \A x \in zset : x.score > now - duration

\* C21: with at most NumProcs sliding-window calls in flight at once,
\* limit >= 1 and no entry aged out of the window, the set holds at most
\* limit + NumProcs - 1 entries and at most limit calls have returned Allow
C21_BurstBound ==
    (strategy = SortedSetStrategy /\ limit >= 1 /\ NoAging) =>
        /\ Cardinality(zset) <= limit + NumProcs - 1
        /\ Cardinality({e \in log : e.state = Allow}) <= limit

\* the set holds limit + NumProcs - 1 entries: limit calls were admitted, a
\* call was denied on the count of its batch and a later one by the pre-check
C21_Witness ==
    /\ strategy = SortedSetStrategy
    /\ limit >= 1
    /\ NoAging
    /\ overlap
    /\ Cardinality(zset) = limit + NumProcs - 1
    /\ Cardinality({e \in log : e.state = Allow}) = limit
    /\ \E e \in log : e.state = Deny /\ e.ins = 1
    /\ \E e \in log : e.state = Deny /\ e.ins = 0

\* C22: in sequential fixed-window calls, only the call that creates the key
\* issues EXPIRE; a call that reads a positive TTL issues none, so the key's
\* deadline stays duration after its creation, whatever later calls return,
\* and every Result of the window reports that deadline
C22_DeadlineFixedAtCreation ==
    strategy = CounterStrategy =>
        /\ \A e \in log : e.armed <=> e.ord = 1
        /\ (counter > 0 /\ expire # keyWithoutExpire) =>
               /\ expire = createdAt + duration
               /\ \A e \in log : e.win = win => e.expiresAt = expire

\* some time into the window of a key, calls that read a positive TTL were
\* allowed and denied and the deadline is still the one set at creation
C22_Witness ==
    /\ strategy = CounterStrategy
    /\ AllIdle
    /\ counter > 0
    /\ expire = createdAt + duration
    /\ \E a, d \in log :
          /\ a.win = win /\ a.state = Allow /\ ~a.armed /\ a.t0 > createdAt
          /\ d.win = win /\ d.state = Deny /\ ~d.armed /\ d.t0 > createdAt

\* in the version that reads before it increments: a Run that reads a count
\* that has reached the limit returns Deny with that count and sends no INCR
DenyWithoutIncrement ==
    \A e \in log :
        (e.got # -1 /\ e.got >= limit) =>
            e.state = Deny /\ e.total = e.got /\ e.inc = 0

\* C23 as stated: in the version that reads before it increments, sequential
\* calls never raise the stored counter above limit, and a Run that reads a
\* count that has reached the limit returns Deny with it and sends no INCR
C23_CounterNeverAboveLimit ==
    strategy = GetIncrStrategy =>
        /\ counter <= limit
        /\ DenyWithoutIncrement

\* C23: the same with limit >= 1; with limit = 0 the first call finds no key,
\* increments it to 1 before any comparison and returns Deny, and the counter
\* stays at 1
C23_CounterNeverAboveLimitOrOne ==
    strategy = GetIncrStrategy =>
        /\ counter <= (IF limit >= 1 THEN limit ELSE 1)
        /\ DenyWithoutIncrement
        /\ \A e \in log : e.inc = 1 => (e.state = Allow <=> limit >= 1)

\* the counter has reached the limit: the call that took it there was
\* admitted, and a later call read it, was denied and left it as it was
C23_Witness ==
    /\ strategy = GetIncrStrategy
    /\ limit >= 1
    /\ AllIdle
    /\ counter = limit
    /\ \E a, d \in log :
          /\ a.state = Allow /\ a.inc = 1 /\ a.total = limit
          /\ d.id > a.id /\ d.state = Deny /\ d.inc = 0
          /\ d.got = limit /\ d.total = limit

====
